---------------------------- MODULE Spec2Model ----------------------------
(***************************************************************************)
(* A model of the ASF_STAC tools:                                          *)
(*   collections/sentinel-1-global-coherence/create_coherence_items.py     *)
(*       (single-item mode: one STAC item per S3 key)                      *)
(*   src/coherence_stac.py                                                 *)
(*       (collection mode: one STAC collection per tile prefix)            *)
(*   collections/ingest_data.py                                            *)
(*       (publishing STAC objects to a STAC API)                           *)
(* Python strings are TLA+ strings; a character is a string of length 1.   *)
(* A Python call either returns a value or raises: a raised exception is   *)
(* the record [exc |-> <exception type>].                                  *)
(***************************************************************************)
EXTENDS Integers, Sequences, FiniteSets, TLC

VARIABLES
    tileid,         \* the argument of the two tile decoders
    bbox_single,    \* what bounding_box_from_tile_id(tileid) returned or raised
    bbox_coll,      \* what tileid_to_bbox(tileid) returned or raised
    s3_key,         \* the S3 key given to the parsers and to the item builder
    metadata,       \* what parse_s3_key(s3_key) returned or raised
    url_metadata,   \* what parse_url(construct_url(s3_key)) returned or raised
    item,           \* what create_stac_item(s3_key, s3_url) returned or raised
    json_files,     \* ingest_data: the STAC objects of args.json_files, in order
    file_idx,       \* ingest_data.main: 1-based position in json_files
    ingest_pc,      \* ingest_data: "post", "put", "done" or "raised"
    http_log,       \* the requests sent to the API so far, with their status
    api_store,      \* the STAC API: object id -> stored content, or Absent
    s3_keys,        \* write_stac_items: the keys to build items for
    count,          \* write_stac_items: the number of items written so far
    stac_files,     \* the files under stac-items/: file name -> item
    write_pc,       \* write_stac_items: "loop", "done" or "raised"
    prefixes,       \* coherence_stac main: the tile prefixes
    listings,       \* S3: prefix -> the keys listed under it
    results,        \* coherence_stac main: what each worker returned, NotRun before
    catalog_children,   \* the collections added to the catalog
    invalid_tiles,  \* the prefixes recorded as invalid
    cat_pc          \* coherence_stac main: "map", "save" or "done"

tileVars == <<tileid, bbox_single, bbox_coll>>

keyVars == <<s3_key, metadata, url_metadata, item>>

ingestVars == <<json_files, file_idx, ingest_pc, http_log, api_store>>

writeVars == <<s3_keys, count, stac_files, write_pc>>

catalogVars == <<prefixes, listings, results, catalog_children, invalid_tiles, cat_pc>>

vars == <<tileVars, keyVars, ingestVars, writeVars, catalogVars>>

\* A call that has not been made yet.
NotRun == [pending |-> TRUE]

Raise(type) == [exc |-> type]

Raised(r) == "exc" \in DOMAIN r

Returned(r) == r # NotRun /\ ~Raised(r)

(***************************************************************************)
(* Python str operations                                                   *)
(***************************************************************************)
Ch(s, i) == SubSeq(s, i, i)

Min(a, b) == IF a < b THEN a ELSE b

\* s[a:b] for 0 <= a, 0 <= b: the slice is clamped to the string, never raises
Slice(s, a, b) ==
    LET hi == Min(b, Len(s))
    IN  IF a < hi THEN SubSeq(s, a + 1, hi) ELSE ""

\* s[a:]
SliceFrom(s, a) == Slice(s, a, Len(s))

LowerLetters == "abcdefghijklmnopqrstuvwxyz"

UpperLetters == "ABCDEFGHIJKLMNOPQRSTUVWXYZ"

DigitChars == "0123456789"

\* 1-based position of the first occurrence of character c in s, 0 if none
IndexOf(s, c) ==
    IF \E i \in 1..Len(s) : Ch(s, i) = c
    THEN CHOOSE i \in 1..Len(s) : Ch(s, i) = c /\ \A j \in 1..(i - 1) : Ch(s, j) # c
    ELSE 0

\* 1-based position of the last occurrence of character c in s, 0 if none
LastIndexOf(s, c) ==
    IF \E i \in 1..Len(s) : Ch(s, i) = c
    THEN CHOOSE i \in 1..Len(s) : Ch(s, i) = c /\ \A j \in (i + 1)..Len(s) : Ch(s, j) # c
    ELSE 0

LowerSet == {Ch(LowerLetters, i) : i \in 1..Len(LowerLetters)}

UpperSet == {Ch(UpperLetters, i) : i \in 1..Len(UpperLetters)}

UpperMap == [c \in LowerSet |-> Ch(UpperLetters, IndexOf(LowerLetters, c))]

LowerMap == [c \in UpperSet |-> Ch(LowerLetters, IndexOf(UpperLetters, c))]

UpperCh(c) == IF c \in LowerSet THEN UpperMap[c] ELSE c

LowerCh(c) == IF c \in UpperSet THEN LowerMap[c] ELSE c

RECURSIVE Upper(_)
\* str.upper(), character by character (by halves, to keep the evaluation shallow)
Upper(s) ==
    IF s = "" THEN ""
    ELSE IF Len(s) = 1 THEN UpperCh(s)
    ELSE LET h == Len(s) \div 2
         IN  Upper(SubSeq(s, 1, h)) \o Upper(SubSeq(s, h + 1, Len(s)))

RECURSIVE Lower(_)
\* str.lower()
Lower(s) ==
    IF s = "" THEN ""
    ELSE IF Len(s) = 1 THEN LowerCh(s)
    ELSE LET h == Len(s) \div 2
         IN  Lower(SubSeq(s, 1, h)) \o Lower(SubSeq(s, h + 1, Len(s)))

RECURSIVE Split(_, _)
\* str.split(sep) for a one-character separator: never empty, keeps empty fields
Split(s, sep) ==
    LET i == IndexOf(s, sep)
    IN  IF i = 0 THEN <<s>>
        ELSE <<SubSeq(s, 1, i - 1)>> \o Split(SubSeq(s, i + 1, Len(s)), sep)

\* sub in s, for a non-empty sub
Contains(s, sub) ==
    \E i \in 1..(Len(s) - Len(sub) + 1) : SubSeq(s, i, i + Len(sub) - 1) = sub

DigitSet == {Ch(DigitChars, i) : i \in 1..Len(DigitChars)}

DigitMap == [c \in DigitSet |-> IndexOf(DigitChars, c) - 1]

IsDigit(c) == c \in DigitSet

DigitVal(c) == DigitMap[c]

RECURSIVE StripLeft(_)
StripLeft(s) == IF s # "" /\ Head(s) = " " THEN StripLeft(Tail(s)) ELSE s

RECURSIVE StripRight(_)
StripRight(s) ==
    IF s # "" /\ Ch(s, Len(s)) = " " THEN StripRight(SubSeq(s, 1, Len(s) - 1)) ELSE s

\* the digits of an int literal: digits, with single underscores between digits
IsIntBody(s) ==
    /\ s # ""
    /\ IsDigit(Ch(s, 1))
    /\ IsDigit(Ch(s, Len(s)))
    /\ \A i \in 1..Len(s) : IsDigit(Ch(s, i)) \/ Ch(s, i) = "_"
    /\ \A i \in 1..(Len(s) - 1) : ~(Ch(s, i) = "_" /\ Ch(s, i + 1) = "_")

RECURSIVE IntBodyVal(_, _)
IntBodyVal(s, acc) ==
    IF s = "" THEN acc
    ELSE IF Head(s) = "_" THEN IntBodyVal(Tail(s), acc)
    ELSE IntBodyVal(Tail(s), 10 * acc + DigitVal(Head(s)))

\* int(s): surrounding blanks, an optional sign, then the digits; ValueError otherwise
PyInt(s) ==
    LET t == StripRight(StripLeft(s))
        signed == t # "" /\ Head(t) \in {"+", "-"}
        body == IF signed THEN Tail(t) ELSE t
    IN  IF ~IsIntBody(body) THEN Raise("ValueError")
        ELSE [val |-> IF signed /\ Head(t) = "-"
                      THEN 0 - IntBodyVal(body, 0) ELSE IntBodyVal(body, 0)]

(***************************************************************************)
(* Tile decoders                                                           *)
(***************************************************************************)
\* shapely geometry.box(minx, miny, maxx, maxy), identified by its bounds
Box(minx, miny, maxx, maxy) ==
    [min_x |-> minx, min_y |-> miny, max_x |-> maxx, max_y |-> maxy]

\* bounding_box_from_tile_id with the sign of the southern latitude dropped
bounding_box_from_tile_id_unsigned(t) ==
    IF Len(t) < 1 THEN Raise("IndexError")
    ELSE LET latval == PyInt(Slice(t, 1, 3))
             lonval == PyInt(Slice(t, 4, 7))
         IN  IF Raised(latval) THEN latval
             ELSE IF Len(t) < 4 THEN Raise("IndexError")
             ELSE IF Raised(lonval) THEN lonval
             ELSE LET max_y == latval.val
                      min_x == IF Ch(t, 4) = "E" THEN lonval.val ELSE 0 - lonval.val
                  IN  Box(min_x, max_y - 1, min_x + 1, max_y)

\* create_coherence_items.bounding_box_from_tile_id
bounding_box_from_tile_id(t) ==
    IF Len(t) < 1 THEN Raise("IndexError")
    ELSE LET latval == PyInt(Slice(t, 1, 3))
             lonval == PyInt(Slice(t, 4, 7))
         IN  IF Raised(latval) THEN latval
             ELSE IF Len(t) < 4 THEN Raise("IndexError")
             ELSE IF Raised(lonval) THEN lonval
             ELSE LET max_y == IF Ch(t, 1) = "N" THEN latval.val ELSE 0 - latval.val
                      min_y == max_y - 1
                      min_x == IF Ch(t, 4) = "E" THEN lonval.val ELSE 0 - lonval.val
                      max_x == min_x + 1
                  IN  Box(min_x, min_y, max_x, max_y)

\* tileid_to_bbox with the western longitude left positive
tileid_to_bbox_unsigned_west(t) ==
    LET n0 == PyInt(Slice(t, 1, 3))
        w0 == PyInt(Slice(t, 4, 7))
    IN  IF Raised(n0) THEN n0
        ELSE IF Raised(w0) THEN w0
        ELSE LET north == IF Ch(t, 1) = "S" THEN n0.val * (0 - 1) ELSE n0.val
                 west == w0.val
             IN  Box(west, north - 1, west + 1, north)

\* coherence_stac.tileid_to_bbox
tileid_to_bbox(t) ==
    LET n0 == PyInt(Slice(t, 1, 3))
        w0 == PyInt(Slice(t, 4, 7))
    IN  IF Raised(n0) THEN n0
        ELSE IF Raised(w0) THEN w0
        ELSE LET north == IF Ch(t, 1) = "S" THEN n0.val * (0 - 1) ELSE n0.val
                 south == north - 1
                 west == IF Ch(t, 4) = "W" THEN w0.val * (0 - 1) ELSE w0.val
                 east == west + 1
             IN  Box(west, south, east, north)

\* the 7-character pattern [NS]dd[EW]ddd
WellFormedTile(t) ==
    /\ Len(t) = 7
    /\ Ch(t, 1) \in {"N", "S"}
    /\ IsDigit(Ch(t, 2)) /\ IsDigit(Ch(t, 3))
    /\ Ch(t, 4) \in {"E", "W"}
    /\ IsDigit(Ch(t, 5)) /\ IsDigit(Ch(t, 6)) /\ IsDigit(Ch(t, 7))

(***************************************************************************)
(* Dates                                                                   *)
(***************************************************************************)
\* datetime(year, month, day, hour): minutes, seconds and microseconds are 0
DateTime(y, m, d, h) ==
    [year |-> y, month |-> m, day |-> d, hour |-> h, minute |-> 0, second |-> 0]

RECURSIVE NatToStr(_)
NatToStr(n) ==
    IF n < 10 THEN Ch(DigitChars, n + 1)
    ELSE NatToStr(n \div 10) \o Ch(DigitChars, (n % 10) + 1)

\* str(n)
IntToStr(n) == IF n < 0 THEN "-" \o NatToStr(0 - n) ELSE NatToStr(n)

RECURSIVE ZeroPad(_, _)
\* '%0<width>d' % n
ZeroPad(n, width) ==
    LET str == NatToStr(n)
    IN  IF Len(str) >= width THEN str ELSE "0" \o ZeroPad(n, width - 1)

\* datetime.isoformat() of a naive datetime with no microseconds
isoformat(dt) ==
    ZeroPad(dt.year, 4) \o "-" \o ZeroPad(dt.month, 2) \o "-" \o ZeroPad(dt.day, 2)
    \o "T" \o ZeroPad(dt.hour, 2) \o ":" \o ZeroPad(dt.minute, 2)
    \o ":" \o ZeroPad(dt.second, 2)

\* days from 1970-01-01 to the given date of the proleptic Gregorian calendar
DaysFromCivil(y, m, d) ==
    LET yy == IF m <= 2 THEN y - 1 ELSE y
        era == yy \div 400
        yoe == yy - era * 400
        mp == IF m > 2 THEN m - 3 ELSE m + 9
        doy == (153 * mp + 2) \div 5 + d - 1
        doe == yoe * 365 + yoe \div 4 - yoe \div 100 + doy
    IN  era * 146097 + doe - 719468

\* the date that many days after 1970-01-01, as <<year, month, day>>
CivilFromDays(n) ==
    LET z == n + 719468
        era == z \div 146097
        doe == z - era * 146097
        yoe == (doe - doe \div 1460 + doe \div 36524 - doe \div 146096) \div 365
        doy == doe - (365 * yoe + yoe \div 4 - yoe \div 100)
        mp == (5 * doy + 2) \div 153
        d == doy - (153 * mp + 2) \div 5 + 1
        m == IF mp < 10 THEN mp + 3 ELSE mp - 9
        y == yoe + era * 400
    IN  <<IF m <= 2 THEN y + 1 ELSE y, m, d>>

\* seconds from 1970-01-01T00:00:00 to dt
ToSeconds(dt) ==
    DaysFromCivil(dt.year, dt.month, dt.day) * 86400
        + dt.hour * 3600 + dt.minute * 60 + dt.second

FromSeconds(n) ==
    LET days == n \div 86400
        rest == n % 86400
        ymd == CivilFromDays(days)
    IN  [year |-> ymd[1], month |-> ymd[2], day |-> ymd[3], hour |-> rest \div 3600,
         minute |-> (rest % 3600) \div 60, second |-> rest % 60]

\* start + (end - start) / 2: the ranges are whole days, so half of the
\* difference is a whole number of seconds
MidDate(start_date, end_date) ==
    FromSeconds(ToSeconds(start_date) + (ToSeconds(end_date) - ToSeconds(start_date)) \div 2)

\* create_coherence_items.datetime_to_str
datetime_to_str(dt) == isoformat(dt) \o "Z"

(***************************************************************************)
(* Single-item mode: create_coherence_items.py                             *)
(***************************************************************************)
\* Python None
None == [none |-> TRUE]

SeasonNames == {"WINTER", "SPRING", "SUMMER", "FALL"}

SEASON_DATE_RANGES ==
    [s \in SeasonNames |->
        CASE s = "WINTER" -> <<DateTime(2019, 12, 1, 0), DateTime(2020, 2, 28, 0)>>
          [] s = "SPRING" -> <<DateTime(2020, 3, 1, 0), DateTime(2020, 5, 31, 0)>>
          [] s = "SUMMER" -> <<DateTime(2020, 6, 1, 0), DateTime(2020, 8, 31, 0)>>
          [] s = "FALL" -> <<DateTime(2020, 9, 1, 0), DateTime(2020, 11, 30, 0)>>]

\* SEASON_DATETIME_AVERAGES with the half day of the winter midpoint dropped
SEASON_DATETIME_AVERAGES_midnight ==
    [s \in SeasonNames |->
        CASE s = "WINTER" -> DateTime(2020, 1, 14, 0)
          [] s = "SPRING" -> DateTime(2020, 4, 15, 12)
          [] s = "SUMMER" -> DateTime(2020, 7, 16, 12)
          [] s = "FALL" -> DateTime(2020, 10, 16, 0)]

SEASON_DATETIME_AVERAGES ==
    [s \in SeasonNames |->
        CASE s = "WINTER" -> DateTime(2020, 1, 14, 12)
          [] s = "SPRING" -> DateTime(2020, 4, 15, 12)
          [] s = "SUMMER" -> DateTime(2020, 7, 16, 12)
          [] s = "FALL" -> DateTime(2020, 10, 16, 0)]

COLLECTION_ID == "sentinel-1-global-coherence"

SAR_INSTRUMENT_MODE == "IW"

SAR_FREQUENCY_BAND == "C"

\* 5.405 GHz, in MHz
SAR_CENTER_FREQUENCY == 5405

SAR_LOOKS_RANGE == 12

SAR_LOOKS_AZIMUTH == 3

SAR_OBSERVATION_DIRECTION == "right"

Bucket == "sentinel-1-global-coherence-earthbigdata"

\* the bucket's LocationConstraint, as S3 reports it
BucketLocation == "us-west-2"

\* create_coherence_items.get_s3_url
get_s3_url == "https://" \o Bucket \o ".s3." \o BucketLocation \o ".amazonaws.com/"

Last(seq) == seq[Len(seq)]

\* create_coherence_items.item_id_from_s3_key
item_id_from_s3_key(key) ==
    LET basename == Last(Split(key, "/"))
    IN  Split(basename, ".")[1]

ExtraItemMetadata(season, date_range, dt, polarization) ==
    [season |-> season, date_range |-> date_range, datetime |-> dt,
     polarization |-> polarization]

ItemMetadata(id, bbox, tile, product, extra) ==
    [id |-> id, bbox |-> bbox, tileid |-> tile, product |-> product, extra |-> extra]

\* parse_s3_key that unpacks the first four parts instead of exactly four
parse_s3_key_first_four(key) ==
    LET item_id == item_id_from_s3_key(key)
        parts == Split(Upper(item_id), "_")
    IN  IF Len(parts) = 3
        THEN LET bbox == bounding_box_from_tile_id(parts[1])
             IN  IF Raised(bbox) THEN bbox
                 ELSE ItemMetadata(item_id, bbox, parts[1], parts[3], None)
        ELSE IF Len(parts) < 4 THEN Raise("ValueError")
        ELSE LET bbox == bounding_box_from_tile_id(parts[1])
                 season == parts[2]
             IN  IF Raised(bbox) THEN bbox
                 ELSE IF season \notin DOMAIN SEASON_DATE_RANGES THEN Raise("KeyError")
                 ELSE ItemMetadata(item_id, bbox, parts[1], parts[4],
                          ExtraItemMetadata(season, SEASON_DATE_RANGES[season],
                              SEASON_DATETIME_AVERAGES[season], parts[3]))

\* create_coherence_items.parse_s3_key
parse_s3_key(key) ==
    LET item_id == item_id_from_s3_key(key)
        parts == Split(Upper(item_id), "_")
    IN  IF Len(parts) = 3
        THEN LET tile == parts[1]
                 product == parts[3]
                 bbox == bounding_box_from_tile_id(tile)
             IN  IF Raised(bbox) THEN bbox
                 ELSE ItemMetadata(item_id, bbox, tile, product, None)
        \* tileid, season, polarization, product = parts
        ELSE IF Len(parts) # 4 THEN Raise("ValueError")
        ELSE LET tile == parts[1]
                 season == parts[2]
                 polarization == parts[3]
                 product == parts[4]
                 bbox == bounding_box_from_tile_id(tile)
             IN  IF Raised(bbox) THEN bbox
                 ELSE IF season \notin DOMAIN SEASON_DATE_RANGES THEN Raise("KeyError")
                 ELSE ItemMetadata(item_id, bbox, tile, product,
                          ExtraItemMetadata(season, SEASON_DATE_RANGES[season],
                              SEASON_DATETIME_AVERAGES[season], polarization))

\* shapely geometry.mapping(box): the closed ring of the four corners
mapping(bbox) ==
    [type |-> "Polygon",
     coordinates |-> << << <<bbox.max_x, bbox.min_y>>, <<bbox.max_x, bbox.max_y>>,
                           <<bbox.min_x, bbox.max_y>>, <<bbox.min_x, bbox.min_y>>,
                           <<bbox.max_x, bbox.min_y>> >> >>]

\* bbox.bounds
bounds(bbox) == <<bbox.min_x, bbox.min_y, bbox.max_x, bbox.max_y>>

\* urllib.parse.urljoin(base, key) for a base that ends in "/" and a relative key
\* with no scheme, no leading "/" and no dot segments
urljoin(base, key) == base \o key

\* dict.update: the entries of new replace or extend those of old
DictUpdate(old, new) == new @@ old

BaseProperties(md) ==
    [k \in {"tileid", "sar:instrument_mode", "sar:frequency_band", "sar:product_type",
            "sar:center_frequency", "sar:looks_range", "sar:looks_azimuth",
            "sar:observation_direction", "start_datetime", "end_datetime"} |->
        CASE k = "tileid" -> md.tileid
          [] k = "sar:instrument_mode" -> SAR_INSTRUMENT_MODE
          [] k = "sar:frequency_band" -> SAR_FREQUENCY_BAND
          [] k = "sar:product_type" -> md.product
          [] k = "sar:center_frequency" -> SAR_CENTER_FREQUENCY
          [] k = "sar:looks_range" -> SAR_LOOKS_RANGE
          [] k = "sar:looks_azimuth" -> SAR_LOOKS_AZIMUTH
          [] k = "sar:observation_direction" -> SAR_OBSERVATION_DIRECTION
          [] k = "start_datetime" -> datetime_to_str(SEASON_DATE_RANGES["WINTER"][1])
          [] k = "end_datetime" -> datetime_to_str(SEASON_DATE_RANGES["FALL"][2])]

\* ExtraProperties without the season's own start and end
ExtraProperties_no_range(extra) ==
    [k \in {"season", "datetime", "sar:polarizations"} |->
        CASE k = "season" -> extra.season
          [] k = "datetime" -> datetime_to_str(extra.datetime)
          [] k = "sar:polarizations" -> <<extra.polarization>>]

ExtraProperties(extra) ==
    [k \in {"season", "start_datetime", "end_datetime", "datetime",
            "sar:polarizations"} |->
        CASE k = "season" -> extra.season
          [] k = "start_datetime" -> datetime_to_str(extra.date_range[1])
          [] k = "end_datetime" -> datetime_to_str(extra.date_range[2])
          [] k = "datetime" -> datetime_to_str(extra.datetime)
          [] k = "sar:polarizations" -> <<extra.polarization>>]

StacItemOf(md, key, s3_url, props) ==
    [type |-> "Feature",
     stac_version |-> "1.0.0",
     id |-> md.id,
     properties |-> props,
     geometry |-> mapping(md.bbox),
     assets |-> [DATA |-> [href |-> urljoin(s3_url, key),
                           type |-> "image/tiff; application=geotiff"]],
     bbox |-> bounds(md.bbox),
     stac_extensions |-> <<"https://stac-extensions.github.io/sar/v1.0.0/schema.json">>,
     collection |-> COLLECTION_ID]

\* create_coherence_items.create_stac_item
create_stac_item(key, s3_url) ==
    LET md == parse_s3_key(key)
    IN  IF Raised(md) THEN md
        ELSE IF md.extra # None
        THEN StacItemOf(md, key, s3_url,
                 DictUpdate(BaseProperties(md), ExtraProperties(md.extra)))
        ELSE StacItemOf(md, key, s3_url, BaseProperties(md))

(***************************************************************************)
(* Collection mode: coherence_stac.py                                      *)
(***************************************************************************)
SEASONS ==
    [s \in SeasonNames |->
        CASE s = "WINTER" -> <<DateTime(2019, 12, 1, 0), DateTime(2020, 2, 28, 0)>>
          [] s = "SPRING" -> <<DateTime(2020, 3, 1, 0), DateTime(2020, 5, 31, 0)>>
          [] s = "SUMMER" -> <<DateTime(2020, 6, 1, 0), DateTime(2020, 8, 31, 0)>>
          [] s = "FALL" -> <<DateTime(2020, 9, 1, 0), DateTime(2020, 11, 30, 0)>>]

\* coherence_stac.construct_url
construct_url(bucket, key) ==
    "https://" \o bucket \o ".s3." \o BucketLocation \o ".amazonaws.com/" \o key

\* pathlib: Path(p).name, the last component that is neither empty nor "."
PathName(p) ==
    LET comps == SelectSeq(Split(p, "/"), LAMBDA c : c # "" /\ c # ".")
    IN  IF Len(comps) = 0 THEN "" ELSE Last(comps)

\* pathlib: Path(p).stem, the name without its last suffix
PathStem(p) ==
    LET name == PathName(p)
        i == LastIndexOf(name, ".")
    IN  IF 1 < i /\ i < Len(name) THEN SubSeq(name, 1, i - 1) ELSE name

\* coherence_stac.parse_url
parse_url(url) ==
    LET parts == Split(PathStem(Upper(url)), "_")
    IN  IF Len(parts) = 3
        THEN LET tile == parts[1]
                 product == parts[3]
                 bbox == tileid_to_bbox(tile)
             IN  IF Raised(bbox) THEN bbox
                 ELSE [url |-> url, bbox |-> bbox, tileid |-> tile, product |-> product]
        \* tileid, season, polarization, product = parts
        ELSE IF Len(parts) # 4 THEN Raise("ValueError")
        ELSE LET tile == parts[1]
                 season == parts[2]
                 polarization == parts[3]
                 product == parts[4]
                 bbox == tileid_to_bbox(tile)
             IN  IF Raised(bbox) THEN bbox
                 ELSE IF season \notin DOMAIN SEASONS THEN Raise("KeyError")
                 ELSE [url |-> url, bbox |-> bbox, tileid |-> tile, product |-> product,
                       date_range |-> SEASONS[season], season |-> season,
                       polarization |-> polarization]

SENTINEL1_CENTER_FREQUENCY == 5405

\* dict[key] on a dict that may lack the key
HasKey(dict, key) == key \in DOMAIN dict

\* the values of pystac.extensions.sar.Polarization
SarPolarizations == {"HH", "VV", "HV", "VH"}

\* the properties set by SarExtension.apply
SarProperties(polarizations) ==
    [k \in {"sar:instrument_mode", "sar:frequency_band", "sar:polarizations",
            "sar:product_type", "sar:center_frequency", "sar:looks_range",
            "sar:looks_azimuth", "sar:observation_direction"} |->
        CASE k = "sar:instrument_mode" -> "IW"
          [] k = "sar:frequency_band" -> "C"
          [] k = "sar:polarizations" -> polarizations
          [] k = "sar:product_type" -> "COH"
          [] k = "sar:center_frequency" -> SENTINEL1_CENTER_FREQUENCY
          [] k = "sar:looks_range" -> 12
          [] k = "sar:looks_azimuth" -> 3
          [] k = "sar:observation_direction" -> "right"]

GEOTIFF == "image/tiff; application=geotiff"

\* product[-2:]
LastTwo(str) == IF Len(str) <= 2 THEN str ELSE SubSeq(str, Len(str) - 1, Len(str))

\* the pystac.Asset of a yearly asset
YearlyAsset(asset) == [href |-> asset.url, media_type |-> GEOTIFF]

\* the pystac.Asset of a seasonal asset, with its extra fields
SeasonalAsset(asset) ==
    IF Contains(asset.product, "COH")
    THEN [href |-> asset.url, media_type |-> GEOTIFF,
          polarization |-> asset.polarization, product |-> "COH",
          temporal_separation |->
              IntToStr(PyInt(LastTwo(asset.product)).val) \o " days"]
    ELSE [href |-> asset.url, media_type |-> GEOTIFF,
          polarization |-> asset.polarization, product |-> asset.product]

RECURSIVE AddYearlyAssets(_, _)
\* item.add_asset for each yearly asset: a later asset replaces one of the same key
AddYearlyAssets(assets, yearly_assets) ==
    IF Len(yearly_assets) = 0 THEN assets
    ELSE LET asset == Head(yearly_assets)
         IN  AddYearlyAssets((asset.product :> YearlyAsset(asset)) @@ assets,
                             Tail(yearly_assets))

RECURSIVE AddSeasonalAssets(_, _)
AddSeasonalAssets(assets, seasonal_assets) ==
    IF Len(seasonal_assets) = 0 THEN assets
    ELSE LET asset == Head(seasonal_assets)
             key == asset.product \o "_" \o asset.polarization
         IN  AddSeasonalAssets((key :> SeasonalAsset(asset)) @@ assets,
                               Tail(seasonal_assets))

Range(seq) == {seq[i] : i \in 1..Len(seq)}

\* coherence_stac.create_stac_item
grouped_create_stac_item(yearly_assets, seasonal_assets) ==
    IF Len(seasonal_assets) = 0 THEN Raise("IndexError")
    ELSE LET ex_asset == seasonal_assets[1]
         IN  IF ~HasKey(ex_asset, "season") THEN Raise("KeyError")
             ELSE IF \E x \in Range(seasonal_assets) : ~HasKey(x, "polarization")
             THEN Raise("KeyError")
             ELSE LET start_date == ex_asset.date_range[1]
                      end_date == ex_asset.date_range[2]
                      mid_date == MidDate(start_date, end_date)
                      polarizations ==
                          {Upper(x.polarization) : x \in Range(seasonal_assets)}
                      properties ==
                          [k \in {"tileid", "season", "start_datetime", "end_datetime"} |->
                              CASE k = "tileid" -> ex_asset.tileid
                                [] k = "season" -> ex_asset.season
                                [] k = "start_datetime" -> isoformat(start_date)
                                [] k = "end_datetime" -> isoformat(end_date)]
                  IN  IF ~(polarizations \subseteq SarPolarizations)
                      THEN Raise("ValueError")
                      ELSE IF \E x \in Range(seasonal_assets) :
                                  /\ Contains(x.product, "COH")
                                  /\ Raised(PyInt(LastTwo(x.product)))
                      THEN Raise("ValueError")
                      ELSE [id |-> ex_asset.tileid \o "_" \o ex_asset.season,
                            geometry |-> mapping(ex_asset.bbox),
                            bbox |-> bounds(ex_asset.bbox),
                            datetime |-> mid_date,
                            properties |-> SarProperties(polarizations) @@ properties,
                            stac_extensions |->
                                <<"https://stac-extensions.github.io/sar/v1.0.0/schema.json">>,
                            assets |-> AddSeasonalAssets(
                                AddYearlyAssets(<<>>, yearly_assets), seasonal_assets)]

\* ('inc' in x['url']) or ('lsmap' in x['url'])
IsYearly(x) == Contains(x.url, "inc") \/ Contains(x.url, "lsmap")

\* [parse_url(x) for x in urls]
AssetDicts(urls) == [i \in 1..Len(urls) |-> parse_url(urls[i])]

\* the seasons of the assets that are not yearly, when every one of them has one
SeasonsOf(asset_dicts) ==
    {x.season : x \in {y \in Range(asset_dicts) : ~IsYearly(y)}}

\* the orders in which list(set(seasons)) may enumerate the seasons
Orders(set) ==
    {f \in [1..Cardinality(set) -> set] :
        \A i, j \in 1..Cardinality(set) : i # j => f[i] # f[j]}

\* the orders of the seasons of the parsed assets, <<>> when
\* create_tile_stac_collection does not get that far
SeasonOrdersOf(asset_dicts) ==
    IF \E i \in 1..Len(asset_dicts) : Raised(asset_dicts[i]) THEN {<<>>}
    ELSE IF \E x \in Range(asset_dicts) : ~IsYearly(x) /\ ~HasKey(x, "season")
    THEN {<<>>}
    ELSE Orders(SeasonsOf(asset_dicts))

SeasonOrders(urls) == SeasonOrdersOf(AssetDicts(urls))

\* the outer mission interval, the default of date_interval
DateInterval == <<DateTime(2019, 12, 1, 0), DateTime(2020, 11, 30, 0)>>

AnyRaised(seq) == \E i \in 1..Len(seq) : Raised(seq[i])

\* the exception of the first call that raised
FirstRaised(seq) ==
    seq[CHOOSE i \in 1..Len(seq) : Raised(seq[i]) /\ \A j \in 1..(i - 1) : ~Raised(seq[j])]

\* [x for x in asset_dicts if season.lower() in x['url']]
SeasonalAssetsOf(asset_dicts, season) ==
    SelectSeq(asset_dicts, LAMBDA x : Contains(x.url, Lower(season)))

\* create_tile_stac_collection: one item per season, in the order of the seasons
ItemsOf(asset_dicts, seasons) ==
    [i \in 1..Len(seasons) |->
        grouped_create_stac_item(SelectSeq(asset_dicts, IsYearly),
                                 SeasonalAssetsOf(asset_dicts, seasons[i]))]

\* create_tile_stac_collection from its items on: collection.add_items(items)
\* makes the collection the parent of each item
CollectionOf(tile, items) ==
    IF AnyRaised(items) THEN FirstRaised(items)
    ELSE IF Len(items) = 0 THEN Raise("IndexError")
    ELSE [type |-> "Collection",
          id |-> tile,
          description |-> "Sentinel-1 Coherence Tile " \o tile,
          extent |-> [spatial |-> items[1].bbox, temporal |-> DateInterval],
          items |-> [i \in 1..Len(items) |-> [collection |-> tile] @@ items[i]]]

\* create_tile_stac_collection from its parsed assets on
CollectionOfAssets(asset_dicts, seasons) ==
    IF AnyRaised(asset_dicts) THEN FirstRaised(asset_dicts)
    ELSE IF \E x \in Range(asset_dicts) : ~IsYearly(x) /\ ~HasKey(x, "season")
    THEN Raise("KeyError")
    ELSE CollectionOf(asset_dicts[1].tileid, ItemsOf(asset_dicts, seasons))

\* coherence_stac.create_tile_stac_collection, for the object URLs listed under the
\* prefix and the order in which the set of seasons is enumerated; an empty
\* listing has no 'Contents'
create_tile_stac_collection(urls, seasons) ==
    IF Len(urls) = 0 THEN Raise("KeyError")
    ELSE CollectionOfAssets(AssetDicts(urls), seasons)

\* coherence_stac.safe_create_tile_stac_collection: the collection, or the prefix
safe_create_tile_stac_collection(prefix, urls, seasons) ==
    LET collection == create_tile_stac_collection(urls, seasons)
    IN  IF Raised(collection) THEN [type |-> "str", value |-> prefix] ELSE collection

(***************************************************************************)
(* Inputs, operations and specifications                                   *)
(***************************************************************************)
\* Tile tokens given to the decoders: seven characters, each position drawn from
\* a few right and a few wrong characters, and tokens that are too short or too long.
TileInputs ==
    {h1 \o a \o b \o h2 \o c \o d \o e :
        h1 \in {"N", "S", "X"}, a \in {"0", "4", "7", "-"},
        b \in {"0", "1", "8", "9", "a"}, h2 \in {"E", "W", "e"},
        c \in {"0", "1", " "}, d \in {"0", "1", "6", "9", "_"},
        e \in {"0", "1", "2", "9"}}
    \cup {"", "N", "N4", "N49", "N49E", "N49E9", "N49E09", "N49E0091", "N49E009X",
          "S78W1610", "N49_E009"}

TileIdle ==
    /\ tileid = ""
    /\ bbox_single = NotRun
    /\ bbox_coll = NotRun

KeyIdle ==
    /\ s3_key = ""
    /\ metadata = NotRun
    /\ url_metadata = NotRun
    /\ item = NotRun

IngestIdle ==
    /\ json_files = <<>>
    /\ file_idx = 0
    /\ ingest_pc = "done"
    /\ http_log = <<>>
    /\ api_store = <<>>

WriteIdle ==
    /\ s3_keys = <<>>
    /\ count = 0
    /\ stac_files = <<>>
    /\ write_pc = "done"

CatalogIdle ==
    /\ prefixes = <<>>
    /\ listings = <<>>
    /\ results = <<>>
    /\ catalog_children = <<>>
    /\ invalid_tiles = <<>>
    /\ cat_pc = "done"

InitTile ==
    /\ tileid \in TileInputs
    /\ bbox_single = NotRun
    /\ bbox_coll = NotRun
    /\ KeyIdle
    /\ IngestIdle
    /\ WriteIdle
    /\ CatalogIdle

DecodeSingle ==
    /\ bbox_single = NotRun
    /\ bbox_single' = bounding_box_from_tile_id(tileid)
    /\ UNCHANGED <<tileid, bbox_coll, keyVars, ingestVars, writeVars, catalogVars>>

DecodeCollection ==
    /\ bbox_coll = NotRun
    /\ bbox_coll' = tileid_to_bbox(tileid)
    /\ UNCHANGED <<tileid, bbox_single, keyVars, ingestVars, writeVars, catalogVars>>

NextTile == DecodeSingle \/ DecodeCollection

SpecTile == InitTile /\ [][NextTile]_vars

(***************************************************************************)
(* Parsing one key and building one item                                   *)
(***************************************************************************)
\* the longest basename, in underscore-separated tokens
MaxTokens == 5

RECURSIVE Join(_, _)
\* sep.join(parts)
Join(parts, sep) ==
    IF Len(parts) = 0 THEN ""
    ELSE IF Len(parts) = 1 THEN parts[1]
    ELSE parts[1] \o sep \o Join(Tail(parts), sep)

\* the first n tokens of tile, t2, t3, t4, v2, v2, ...
TokenList(tile, t2, t3, t4, n) ==
    [i \in 1..n |-> CASE i = 1 -> tile [] i = 2 -> t2 [] i = 3 -> t3 [] i = 4 -> t4
                      [] OTHER -> "v2"]

\* S3 keys: with or without the tile's directory, with or without an extension,
\* one to MaxTokens tokens, tiles in either case or malformed, seasons known or not
KeyInputs ==
    {(IF dir THEN "data/tiles/" \o tile \o "/" ELSE "")
        \o Join(TokenList(tile, t2, t3, t4, n), "_") \o ext :
        tile \in {"N00E005", "S78W078", "n00e011", "NxxE005"},
        t2 \in {"124D", "fall", "summer", "winter", "spring", "Fall", "autumn"},
        t3 \in {"inc", "lsmap", "vh", "hh", "vv"},
        t4 \in {"AMP", "COH36", "COH06", "tau", "inc"},
        n \in 1..MaxTokens, ext \in {".tif", ""}, dir \in BOOLEAN}

InitKey ==
    /\ s3_key \in KeyInputs
    /\ metadata = NotRun
    /\ url_metadata = NotRun
    /\ item = NotRun
    /\ TileIdle
    /\ IngestIdle
    /\ WriteIdle
    /\ CatalogIdle

ParseS3Key ==
    /\ metadata = NotRun
    /\ metadata' = parse_s3_key(s3_key)
    /\ UNCHANGED <<s3_key, url_metadata, item, tileVars, ingestVars, writeVars, catalogVars>>

ParseUrl ==
    /\ url_metadata = NotRun
    /\ url_metadata' = parse_url(construct_url(Bucket, s3_key))
    /\ UNCHANGED <<s3_key, metadata, item, tileVars, ingestVars, writeVars, catalogVars>>

CreateStacItem ==
    /\ item = NotRun
    /\ item' = create_stac_item(s3_key, get_s3_url)
    /\ UNCHANGED <<s3_key, metadata, url_metadata, tileVars, ingestVars, writeVars, catalogVars>>

NextKey == ParseS3Key \/ ParseUrl \/ CreateStacItem

SpecKey == InitKey /\ [][NextKey]_vars

(***************************************************************************)
(* Publishing: ingest_data.py                                              *)
(***************************************************************************)
\* the longest list of JSON files given to ingest_data
MaxFiles == 3

\* args.api_url
ApiUrl == "https://stac.example.com/api/"

\* the STAC objects found in the JSON files; content stands for the rest of the body
StacObjects ==
    {[type |-> "Catalog", id |-> "sentinel-1-global-coherence-earthbigdata",
      collection |-> "", content |-> "new"],
     [type |-> "Collection", id |-> "sentinel-1-global-coherence",
      collection |-> "", content |-> "new"],
     [type |-> "Feature", id |-> "N00E005_124D_inc",
      collection |-> "sentinel-1-global-coherence", content |-> "new"],
     [type |-> "Feature", id |-> "S78W078_summer_hh_AMP",
      collection |-> "sentinel-1-global-coherence", content |-> "new"]}

ObjectIds == {o.id : o \in StacObjects}

\* no object is stored under the id
Absent == "absent"

\* ingest_data.get_endpoint
get_endpoint(stac_object) ==
    IF stac_object.type \in {"Catalog", "Collection"} THEN "/collections"
    ELSE IF stac_object.type # "Feature" THEN Raise("AssertionError")
    ELSE "/collections/" \o stac_object.collection \o "/items"

\* the scheme and host of a URL: everything before the third "/"
UrlOrigin(url) ==
    LET parts == Split(url, "/")
    IN  parts[1] \o "/" \o parts[2] \o "/" \o parts[3]

\* urllib.parse.urljoin(api_url, endpoint) for an endpoint that starts with "/":
\* the endpoint replaces the path of api_url
urljoin_abs(api_url, endpoint) == UrlOrigin(api_url) \o endpoint

\* Response.raise_for_status: HTTPError for a 4xx or 5xx status
raise_for_status(status) ==
    IF 400 <= status /\ status < 600 THEN Raise("HTTPError") ELSE None

\* a PUT after any failed POST
needs_put_on_error(status) == status >= 400

\* ingest_data.add_stac_object: if response.status_code == 409
needs_put(status) == status = 409

\* the API's answers to a POST: 409 for an id it holds, 201 for one it stores now,
\* and, whatever it holds, a refusal or a failure of its own
PostStatuses(store, obj) ==
    (IF store[obj.id] # Absent THEN {409} ELSE {201}) \cup {400, 500}

\* the API's answers to a PUT: 200 when it replaced the object, or an error
PutStatuses == {200, 404, 500}

Request(method, url, idx, status) ==
    [method |-> method, url |-> url, obj |-> idx, status |-> status]

\* main's loop: the next file, or the end of the list
AfterObject ==
    IF file_idx < Len(json_files)
    THEN file_idx' = file_idx + 1 /\ ingest_pc' = "post"
    ELSE file_idx' = file_idx /\ ingest_pc' = "done"

InitIngest ==
    /\ json_files \in UNION {[1..n -> StacObjects] : n \in 1..MaxFiles}
    /\ file_idx = 1
    /\ ingest_pc = "post"
    /\ http_log = <<>>
    /\ api_store \in [ObjectIds -> {Absent, "old"}]
    /\ TileIdle
    /\ KeyIdle
    /\ WriteIdle
    /\ CatalogIdle

\* add_stac_object up to the answer to its POST
Post ==
    /\ ingest_pc = "post"
    /\ LET stac_object == json_files[file_idx]
           url == urljoin_abs(ApiUrl, get_endpoint(stac_object))
       IN  \E status \in PostStatuses(api_store, stac_object) :
             /\ http_log' = Append(http_log, Request("POST", url, file_idx, status))
             /\ api_store' = IF status = 201
                             THEN [api_store EXCEPT ![stac_object.id] = stac_object.content]
                             ELSE api_store
             /\ IF needs_put(status)
                THEN ingest_pc' = "put" /\ file_idx' = file_idx
                ELSE IF Raised(raise_for_status(status))
                THEN ingest_pc' = "raised" /\ file_idx' = file_idx
                ELSE AfterObject
    /\ UNCHANGED <<json_files, tileVars, keyVars, writeVars, catalogVars>>

\* add_stac_object from its PUT on
Put ==
    /\ ingest_pc = "put"
    /\ LET stac_object == json_files[file_idx]
           url == urljoin_abs(ApiUrl, get_endpoint(stac_object))
       IN  \E status \in PutStatuses :
             /\ http_log' = Append(http_log, Request("PUT", url, file_idx, status))
             /\ api_store' = IF status = 200
                             THEN [api_store EXCEPT ![stac_object.id] = stac_object.content]
                             ELSE api_store
             /\ IF Raised(raise_for_status(status))
                THEN ingest_pc' = "raised" /\ file_idx' = file_idx
                ELSE AfterObject
    /\ UNCHANGED <<json_files, tileVars, keyVars, writeVars, catalogVars>>

NextIngest == Post \/ Put

SpecIngest == InitIngest /\ [][NextIngest]_vars

(***************************************************************************)
(* Batch runs: write_stac_items, and the main program of coherence_stac    *)
(***************************************************************************)
\* the longest list of S3 keys given to write_stac_items
MaxKeys == 3

\* the longest list of tile prefixes given to the main program of coherence_stac
MaxPrefixes == 2

\* keys of the list of S3 objects: three well-formed ones, then a key with five
\* tokens, one with an unknown season and one whose tile has no digits
BatchKeys ==
    {"data/tiles/N00E005/N00E005_124D_inc.tif",
     "data/tiles/N00E005/N00E005_fall_vh_AMP.tif",
     "data/tiles/S78W078/S78W078_summer_hh_AMP.tif",
     "data/tiles/N00E005/N00E005_fall_vh_AMP_v2.tif",
     "data/tiles/N00E005/N00E005_autumn_vh_AMP.tif",
     "data/tiles/NxxE005/NxxE005_124D_inc.tif"}

TilePool == {"N00E005", "S78W078"}

\* f'data/tiles/{x}/'
PrefixOf(tile) == "data/tiles/" \o tile \o "/"

\* what S3 may list under the prefix of a tile: a yearly asset and two seasons; a
\* file with one token too many; a file of an unknown season; a yearly asset alone
ListingOptions(tile) ==
    LET base == PrefixOf(tile) \o tile
    IN  {<<base \o "_124D_inc.tif", base \o "_fall_vh_AMP.tif",
           base \o "_fall_vv_COH06.tif", base \o "_winter_vv_tau.tif">>,
         <<base \o "_124D_inc.tif", base \o "_fall_vh_AMP.tif",
           base \o "_fall_vv_AMP_v2.tif">>,
         <<base \o "_124D_inc.tif", base \o "_autumn_vv_AMP.tif">>,
         <<base \o "_124D_inc.tif">>}

\* coherence_stac.get_object_urls
get_object_urls(bucket, keys) == [i \in 1..Len(keys) |-> construct_url(bucket, keys[i])]

InitWrite ==
    /\ s3_keys \in UNION {[1..n -> BatchKeys] : n \in 0..MaxKeys}
    /\ count = 0
    /\ stac_files = <<>>
    /\ write_pc = IF Len(s3_keys) = 0 THEN "done" ELSE "loop"
    /\ CatalogIdle

InitCatalog ==
    /\ prefixes \in UNION {[1..n -> {PrefixOf(t) : t \in TilePool}] : n \in 1..MaxPrefixes}
    /\ listings \in {f \in [{PrefixOf(t) : t \in TilePool} ->
                               UNION {ListingOptions(t) : t \in TilePool}] :
                        \A t \in TilePool : f[PrefixOf(t)] \in ListingOptions(t)}
    /\ results = [i \in 1..Len(prefixes) |-> NotRun]
    /\ catalog_children = <<>>
    /\ invalid_tiles = <<>>
    /\ cat_pc = "map"
    /\ WriteIdle

InitBatch ==
    /\ InitWrite \/ InitCatalog
    /\ TileIdle
    /\ KeyIdle
    /\ IngestIdle

\* one turn of the loop of write_stac_items; an exception of create_stac_item
\* leaves the loop and the program
WriteStacItem ==
    /\ write_pc = "loop"
    /\ \E new_item \in {create_stac_item(s3_keys[count + 1], get_s3_url)} :
           IF Raised(new_item)
           THEN /\ write_pc' = "raised"
                /\ UNCHANGED <<count, stac_files>>
           ELSE /\ stac_files' = ((new_item.id \o ".json") :> new_item) @@ stac_files
                /\ count' = count + 1
                /\ write_pc' = IF count + 1 = Len(s3_keys) THEN "done" ELSE "loop"
    /\ UNCHANGED <<s3_keys, tileVars, keyVars, ingestVars, catalogVars>>

\* one worker of the thread pool: safe_create_tile_stac_collection for one prefix
SafeCreate ==
    /\ cat_pc = "map"
    /\ \E i \in 1..Len(prefixes) :
          /\ results[i] = NotRun
          /\ LET urls == get_object_urls(Bucket, listings[prefixes[i]])
             IN  \E seasons \in SeasonOrders(urls) :
                    results' = [results EXCEPT
                        ![i] = safe_create_tile_stac_collection(prefixes[i], urls, seasons)]
    /\ UNCHANGED <<prefixes, listings, catalog_children, invalid_tiles, cat_pc>>
    /\ UNCHANGED <<tileVars, keyVars, ingestVars, writeVars>>

\* the loop over the results: collections join the catalog, the rest is invalid
CreateCatalog ==
    /\ cat_pc = "map"
    /\ \A i \in 1..Len(prefixes) : results[i] # NotRun
    /\ catalog_children' = SelectSeq(results, LAMBDA r : r.type = "Collection")
    /\ invalid_tiles' = SelectSeq(results, LAMBDA r : r.type # "Collection")
    /\ cat_pc' = "save"
    /\ UNCHANGED <<prefixes, listings, results>>
    /\ UNCHANGED <<tileVars, keyVars, ingestVars, writeVars>>

\* save_stac_catalog_locally, then data/invalid_tiles.txt
SaveCatalog ==
    /\ cat_pc = "save"
    /\ cat_pc' = "done"
    /\ UNCHANGED <<prefixes, listings, results, catalog_children, invalid_tiles>>
    /\ UNCHANGED <<tileVars, keyVars, ingestVars, writeVars>>

NextBatch == WriteStacItem \/ SafeCreate \/ CreateCatalog \/ SaveCatalog

SpecBatch == InitBatch /\ [][NextBatch]_vars

(***************************************************************************)
(* Both modes over the objects of one tile prefix                          *)
(***************************************************************************)
\* the longest listing of the prefix
MaxListing == 2

\* the prefix whose objects both modes are given
GroupPrefix == PrefixOf("N00E005")

\* the objects S3 may hold under the prefix, in the order S3 lists keys: a yearly
\* asset, seasonal assets of the four seasons with several product tokens, and
\* an object named after the neighbouring tile
GroupKeys ==
    <<GroupPrefix \o "N00E005_124D_inc.tif",
      GroupPrefix \o "N00E005_fall_vh_XCOH12.tif",
      GroupPrefix \o "N00E005_fall_vv_COH36.tif",
      GroupPrefix \o "N00E005_spring_vh_COH6.tif",
      GroupPrefix \o "N00E005_spring_vv_tau.tif",
      GroupPrefix \o "N00E005_summer_hh_COH120.tif",
      GroupPrefix \o "N00E005_summer_vv_AMP.tif",
      GroupPrefix \o "N00E005_winter_vv_COH06.tif",
      GroupPrefix \o "N00E006_fall_vh_AMP.tif">>

RECURSIVE Pick(_, _, _)
\* the elements of seq at the positions in chosen, from position i on, in order
Pick(seq, chosen, i) ==
    IF i > Len(seq) THEN <<>>
    ELSE (IF i \in chosen THEN <<seq[i]>> ELSE <<>>) \o Pick(seq, chosen, i + 1)

\* the listings of the prefix: one to MaxListing of its objects, in key order
GroupListings ==
    {Pick(GroupKeys, chosen, 1) :
        chosen \in {c \in SUBSET (1..Len(GroupKeys)) :
                        Cardinality(c) >= 1 /\ Cardinality(c) <= MaxListing}}

\* create_coherence_items is given the keys of the prefix, coherence_stac the prefix
InitGroup ==
    /\ s3_keys \in GroupListings
    /\ count = 0
    /\ stac_files = <<>>
    /\ write_pc = "loop"
    /\ prefixes = <<GroupPrefix>>
    /\ listings = (GroupPrefix :> s3_keys)
    /\ results = <<NotRun>>
    /\ catalog_children = <<>>
    /\ invalid_tiles = <<>>
    /\ cat_pc = "map"
    /\ TileIdle
    /\ KeyIdle
    /\ IngestIdle

SpecGroup == InitGroup /\ [][NextBatch]_vars

(***************************************************************************)
(* Claims about the tile decoders (checked under SpecTile)                 *)
(***************************************************************************)
LatVal(t) == 10 * DigitVal(Ch(t, 2)) + DigitVal(Ch(t, 3))

LonVal(t) == 100 * DigitVal(Ch(t, 5)) + 10 * DigitVal(Ch(t, 6)) + DigitVal(Ch(t, 7))

\* C1: for every well-formed tile token [NS]dd[EW]ddd, bounding_box_from_tile_id
\* returns the box with max_y = +latval for N and -latval for S, min_y = max_y - 1,
\* min_x = +lonval for E and -lonval for W, max_x = min_x + 1 (a 1 by 1 box that
\* depends on the token only); N49E009 -> (9,48,10,49), N48W090 -> (-90,47,-89,48),
\* S01E012 -> (12,-2,13,-1), S78W161 -> (-161,-79,-160,-78).
C1_BoxOfWellFormedTile ==
    (WellFormedTile(tileid) /\ bbox_single # NotRun) =>
        /\ Returned(bbox_single)
        /\ bbox_single.max_y =
              (IF Ch(tileid, 1) = "N" THEN LatVal(tileid) ELSE 0 - LatVal(tileid))
        /\ bbox_single.min_y = bbox_single.max_y - 1
        /\ bbox_single.min_x =
              (IF Ch(tileid, 4) = "E" THEN LonVal(tileid) ELSE 0 - LonVal(tileid))
        /\ bbox_single.max_x = bbox_single.min_x + 1
        /\ (tileid = "N49E009" => bbox_single = Box(9, 48, 10, 49))
        /\ (tileid = "N48W090" => bbox_single = Box(0 - 90, 47, 0 - 89, 48))
        /\ (tileid = "S01E012" => bbox_single = Box(12, 0 - 2, 13, 0 - 1))
        /\ (tileid = "S78W161" => bbox_single = Box(0 - 161, 0 - 79, 0 - 160, 0 - 78))

\* a southern, western token has been decoded
C1_Witness ==
    /\ tileid = "S78W161"
    /\ bbox_single = Box(0 - 161, 0 - 79, 0 - 160, 0 - 78)

\* C2: decoding fails with a format error whenever the token does not match the
\* 7-character pattern [NS]dd[EW]ddd (wrong hemisphere letter, wrong length or a
\* non-digit magnitude); no such token is ever decoded into a bounding box.
C2_MalformedTileRaises ==
    /\ (bbox_single # NotRun /\ ~WellFormedTile(tileid)) => Raised(bbox_single)
    /\ (bbox_coll # NotRun /\ ~WellFormedTile(tileid)) => Raised(bbox_coll)

(***************************************************************************)
(* Claims about the parsers and the single-item builder (under SpecKey)    *)
(***************************************************************************)
\* the basename of the key without its extension, as written
Stem(key) == Split(Last(Split(key, "/")), ".")[1]

\* its underscore-separated tokens, as written
StemTokens(key) == Split(Stem(key), "_")

\* C3: parsing a key whose basename has exactly 3 tokens (tile, orbit, product)
\* yields metadata whose id is the basename without extension, whose tile is the
\* tile token, whose product is the product token exactly as written in the
\* filename ('N00E005_124D_inc.tif' gives product 'inc', tile 'N00E005'), and
\* which carries no season or polarization metadata.
C3_ThreeTokenKey ==
    (Returned(metadata) /\ Len(StemTokens(s3_key)) = 3) =>
        /\ metadata.id = Stem(s3_key)
        /\ metadata.tileid = StemTokens(s3_key)[1]
        /\ metadata.product = StemTokens(s3_key)[3]
        /\ metadata.extra = None

\* C4: parsing a key whose basename has exactly 4 tokens (tile, season,
\* polarization, product) yields the season as written in the filename ('fall'),
\* the polarization upper-cased ('VH'), the product as written ('AMP'), the date
\* range of that season and the datetime of that season's midpoint.
C4_FourTokenKey ==
    (Returned(metadata) /\ Len(StemTokens(s3_key)) = 4) =>
        /\ metadata.extra # None
        /\ metadata.extra.season = StemTokens(s3_key)[2]
        /\ metadata.extra.polarization = Upper(StemTokens(s3_key)[3])
        /\ metadata.product = StemTokens(s3_key)[4]
        /\ metadata.extra.date_range = SEASON_DATE_RANGES[Upper(StemTokens(s3_key)[2])]
        /\ metadata.extra.datetime = SEASON_DATETIME_AVERAGES[Upper(StemTokens(s3_key)[2])]

\* the key names a season of the table, in any case
BadShape(key) ==
    \/ Len(StemTokens(key)) \notin {3, 4}
    \/ /\ Len(StemTokens(key)) = 4
       /\ Upper(StemTokens(key)[2]) \notin SeasonNames

\* C5: parse_s3_key and parse_url both end in an error, and return no metadata
\* record, for every basename whose token count is neither 3 nor 4 and for every
\* 4-token basename whose upper-cased season token is not WINTER, SPRING, SUMMER
\* or FALL.
C5_BadShapeRaises ==
    BadShape(s3_key) =>
        /\ metadata # NotRun => Raised(metadata)
        /\ url_metadata # NotRun => Raised(url_metadata)

\* both parsers have rejected a 5-token key and, elsewhere, an unknown season
C5_Witness ==
    /\ s3_key = "data/tiles/N00E005/N00E005_summer_vh_AMP_v2.tif"
    /\ metadata = Raise("ValueError")
    /\ url_metadata = Raise("ValueError")

IsoRange(season) ==
    CASE season = "WINTER" -> <<"2019-12-01T00:00:00Z", "2020-02-28T00:00:00Z">>
      [] season = "SPRING" -> <<"2020-03-01T00:00:00Z", "2020-05-31T00:00:00Z">>
      [] season = "SUMMER" -> <<"2020-06-01T00:00:00Z", "2020-08-31T00:00:00Z">>
      [] season = "FALL" -> <<"2020-09-01T00:00:00Z", "2020-11-30T00:00:00Z">>

IsoMidpoint(season) ==
    CASE season = "WINTER" -> "2020-01-14T12:00:00Z"
      [] season = "SPRING" -> "2020-04-15T12:00:00Z"
      [] season = "SUMMER" -> "2020-07-16T12:00:00Z"
      [] season = "FALL" -> "2020-10-16T00:00:00Z"

\* C6: in single-item mode create_stac_item builds an item whose start/end are the
\* outer mission range (2019-12-01 .. 2020-11-30) and which has no 'datetime',
\* 'season' or 'sar:polarizations' property when the key has no season metadata;
\* when the key has season metadata, start/end are that season's own range and the
\* item has 'datetime' = the season midpoint, 'season', and 'sar:polarizations' =
\* a one-element list holding the upper-cased polarization.  Either way the item
\* has exactly one asset.
C6_ItemDates ==
    Returned(item) =>
        LET props == item.properties
            tokens == StemTokens(s3_key)
        IN  /\ Cardinality(DOMAIN item.assets) = 1
            /\ Len(tokens) = 3 =>
                  /\ props["start_datetime"] = "2019-12-01T00:00:00Z"
                  /\ props["end_datetime"] = "2020-11-30T00:00:00Z"
                  /\ DOMAIN props \cap {"datetime", "season", "sar:polarizations"} = {}
            /\ Len(tokens) # 3 =>
                  /\ props["start_datetime"] = IsoRange(Upper(tokens[2]))[1]
                  /\ props["end_datetime"] = IsoRange(Upper(tokens[2]))[2]
                  /\ props["datetime"] = IsoMidpoint(Upper(tokens[2]))
                  /\ "season" \in DOMAIN props
                  /\ props["sar:polarizations"] = <<Upper(tokens[3])>>

\* a seasonal item has been built
C6_Witness ==
    /\ s3_key = "data/tiles/S78W078/S78W078_summer_hh_AMP.tif"
    /\ Returned(item)
    /\ item.properties["datetime"] = "2020-07-16T12:00:00Z"

\* an item without season metadata has been built
C6_WitnessYearly ==
    /\ s3_key = "data/tiles/N00E005/N00E005_124D_inc.tif"
    /\ Returned(item)
    /\ item.properties["end_datetime"] = "2020-11-30T00:00:00Z"

(***************************************************************************)
(* Claims about publishing (under SpecIngest)                              *)
(***************************************************************************)
\* the requests sent for the object at position i of json_files, in order
RequestsOf(i) == SelectSeq(http_log, LAMBDA r : r.obj = i)

\* add_stac_object has returned or raised for the object at position i
Handled(i) == i < file_idx \/ (i = file_idx /\ ingest_pc \in {"done", "raised"})

C9_RunReachesEveryObject ==
    ingest_pc \in {"done", "raised"} =>
        \A i \in 1..Len(json_files) : Len(RequestsOf(i)) >= 1

\* C10: the ingester skips objects that already exist: an object the API already
\* holds (POST answered 409) is not modified by any request of the ingester.
C10_ExistingObjectUnchanged ==
    [][\A id \in ObjectIds :
          api_store[id] # Absent => api_store'[id] = api_store[id]]_vars

(***************************************************************************)
(* Claims about batch runs (under SpecBatch)                               *)
(***************************************************************************)
\* a filename of one of the two shapes: tile, orbit, product or tile, season,
\* polarization, product, with a well-formed tile and a known season
WellFormedName(key) ==
    /\ ~BadShape(key)
    /\ WellFormedTile(Upper(StemTokens(key)[1]))

Malformed(keys) == {i \in 1..Len(keys) : ~WellFormedName(keys[i])}

\* the prefixes of the run under which S3 lists a malformed filename
MalformedPrefixes ==
    {i \in 1..Len(prefixes) : Malformed(listings[prefixes[i]]) # {}}

\* C7: a batch run over a list that holds exactly one malformed filename among N
\* well-formed ones runs to completion and produces N valid items (single-item
\* mode) or N valid collections (collection mode, one per tile prefix) plus one
\* recorded failure; the malformed unit never prevents a well-formed unit, listed
\* before or after it, from being built and written.
C7_OneMalformedUnit ==
    /\ (write_pc \in {"done", "raised"} /\ Cardinality(Malformed(s3_keys)) = 1
            /\ Len(s3_keys) >= 2) =>
          /\ write_pc = "done"
          /\ \A i \in 1..Len(s3_keys) :
                WellFormedName(s3_keys[i]) =>
                    (Stem(s3_keys[i]) \o ".json") \in DOMAIN stac_files
    /\ (cat_pc = "done" /\ Cardinality(MalformedPrefixes) = 1 /\ Len(prefixes) >= 2) =>
          /\ Len(catalog_children) = Len(prefixes) - 1
          /\ Len(invalid_tiles) = 1
          /\ \A i \in MalformedPrefixes :
                invalid_tiles[1] = [type |-> "str", value |-> prefixes[i]]

(***************************************************************************)
(* Claims about collection mode and the two modes together (under          *)
(* SpecGroup)                                                              *)
(***************************************************************************)
\* the keys listed under the i-th prefix of the run
ListedKeys(i) == listings[prefixes[i]]

\* the keys with four tokens: the seasonal assets
SeasonalKeys(keys) == {k \in 1..Len(keys) : Len(StemTokens(keys[k])) = 4}

\* the tokens of the parsed asset: those of the filename, upper-cased
AssetTokens(key) == [t \in 1..Len(StemTokens(key)) |-> Upper(StemTokens(key)[t])]

BeginsWithCOH(product) == Len(product) >= 3 /\ SubSeq(product, 1, 3) = "COH"

\* what follows the first three characters, when it is one digit or more
HasNumericSuffix(product) ==
    /\ Len(product) > 3
    /\ \A c \in 4..Len(product) : IsDigit(Ch(product, c))

RECURSIVE DecimalValue(_)
\* the number a string of digits writes
DecimalValue(digits) ==
    IF Len(digits) = 0 THEN 0
    ELSE DecimalValue(SubSeq(digits, 1, Len(digits) - 1)) * 10
            + DigitVal(Ch(digits, Len(digits)))

\* the fields the seasonal asset of the given product token is to carry
SeasonalAssetFieldsOk(asset, product) ==
    IF BeginsWithCOH(product)
    THEN HasNumericSuffix(product) =>
            /\ asset.product = "COH"
            /\ "temporal_separation" \in DOMAIN asset
            /\ asset.temporal_separation =
                  IntToStr(DecimalValue(SubSeq(product, 4, Len(product)))) \o " days"
    ELSE /\ asset.product = product
         /\ "temporal_separation" \notin DOMAIN asset

\* C11: in collection-grouping mode create_stac_item adds one asset per seasonal
\* asset, keyed '{product}_{polarization}'; for a product token that begins with
\* COH followed by a numeric suffix the asset's product field is exactly 'COH' and
\* its temporal_separation is '<n> days', n the integer value of the suffix; for
\* every product that does not begin with COH the stored product is the token
\* unmodified and there is no temporal_separation field.
C11_SeasonalAssetFields ==
    \A i \in 1..Len(results) :
        results[i] # NotRun =>
            \A k \in SeasonalKeys(ListedKeys(i)) :
                LET tokens == AssetTokens(ListedKeys(i)[k])
                    key == tokens[4] \o "_" \o tokens[3]
                IN  /\ results[i].type = "Collection"
                    /\ \E j \in 1..Len(results[i].items) :
                          LET built == results[i].items[j]
                          IN  /\ built.properties["season"] = tokens[2]
                              /\ key \in DOMAIN built.assets
                              /\ SeasonalAssetFieldsOk(built.assets[key], tokens[4])

\* C12: for every collection returned by create_tile_stac_collection, whatever
\* list of object URLs the prefix listing returns, the tile id of every child item
\* (properties.tileid) equals the collection id.
C12_ChildTileIsCollectionId ==
    \A i \in 1..Len(results) :
        (results[i] # NotRun /\ results[i].type = "Collection") =>
            \A j \in 1..Len(results[i].items) :
                results[i].items[j].properties["tileid"] = results[i].id

\* an ISO-8601 date and time to the second with the literal Z: YYYY-MM-DDTHH:MM:SSZ
IsIso8601Z(str) ==
    /\ Len(str) = 20
    /\ \A c \in {1, 2, 3, 4, 6, 7, 9, 10, 12, 13, 15, 16, 18, 19} : IsDigit(Ch(str, c))
    /\ Ch(str, 5) = "-" /\ Ch(str, 8) = "-" /\ Ch(str, 11) = "T"
    /\ Ch(str, 14) = ":" /\ Ch(str, 17) = ":"
    /\ Ch(str, 20) = "Z"

\* the Features built so far: the items written by single-item mode and the
\* children of the collections returned by collection mode
SingleFeatures == {stac_files[f] : f \in DOMAIN stac_files}

GroupedFeatures ==
    UNION {Range(results[i].items) :
              i \in {r \in 1..Len(results) :
                         results[r] # NotRun /\ results[r].type = "Collection"}}

\* C13: every STAC Feature produced by either item builder carries
\* properties.start_datetime and properties.end_datetime as ISO-8601 strings that
\* end with the literal 'Z'.
C13_FeatureDatesEndInZ ==
    \A feature \in SingleFeatures \cup GroupedFeatures :
        /\ IsIso8601Z(feature.properties["start_datetime"])
        /\ IsIso8601Z(feature.properties["end_datetime"])

\* half of the season's range, in seconds: 44.5 days for winter, 45.5 for spring
\* and summer, 45 for fall
HalfSpan(season) ==
    CASE season = "WINTER" -> 44 * 86400 + 43200
      [] season = "SPRING" -> 45 * 86400 + 43200
      [] season = "SUMMER" -> 45 * 86400 + 43200
      [] season = "FALL" -> 45 * 86400

\* C14: for each of the four seasons the constant midpoint of
\* SEASON_DATETIME_AVERAGES is equidistant from the season's start and end (44.5
\* days for winter, 45.5 for spring and summer, 45 for fall), hence equals
\* start + (end - start)/2 as collection mode computes it per group: the two modes
\* assign the same 'datetime' to items of the same season.
C14_MidpointsAgree ==
    /\ \A single \in SingleFeatures :
          "season" \in DOMAIN single.properties =>
              LET season == single.properties["season"]
                  average == SEASON_DATETIME_AVERAGES[season]
              IN  /\ single.properties["datetime"] = isoformat(average) \o "Z"
                  /\ ToSeconds(average) - ToSeconds(SEASON_DATE_RANGES[season][1])
                        = HalfSpan(season)
                  /\ ToSeconds(SEASON_DATE_RANGES[season][2]) - ToSeconds(average)
                        = HalfSpan(season)
    /\ \A grouped \in GroupedFeatures :
          LET season == grouped.properties["season"]
          IN  /\ ToSeconds(grouped.datetime) - ToSeconds(SEASONS[season][1])
                    = HalfSpan(season)
              /\ \A single \in SingleFeatures :
                    ("season" \in DOMAIN single.properties
                        /\ single.properties["season"] = season) =>
                        single.properties["datetime"] = isoformat(grouped.datetime) \o "Z"

\* both modes have built the winter item of the same listing
C14_Witness ==
    /\ \E single \in SingleFeatures :
          /\ "season" \in DOMAIN single.properties
          /\ single.properties["season"] = "WINTER"
          /\ single.properties["datetime"] = "2020-01-14T12:00:00Z"
    /\ \E grouped \in GroupedFeatures :
          /\ grouped.properties["season"] = "WINTER"
          /\ grouped.datetime = DateTime(2020, 1, 14, 12)

(***************************************************************************)
(* The two tile decoders together (under SpecTile)                         *)
(***************************************************************************)
\* C15: bounding_box_from_tile_id (single-item mode) and tileid_to_bbox
\* (collection mode) return the same bounding box for every well-formed tile token
\* [NS]dd[EW]ddd, southern and western tokens and the zero-magnitude tokens (S00,
\* W000) included.
C15_DecodersAgree ==
    (WellFormedTile(tileid) /\ bbox_single # NotRun /\ bbox_coll # NotRun) =>
        /\ Returned(bbox_single)
        /\ Returned(bbox_coll)
        /\ bbox_single = bbox_coll

\* both decoders have decoded the south-western token of magnitude zero
C15_Witness ==
    /\ tileid = "S00W000"
    /\ bbox_single = Box(0, 0 - 1, 1, 0)
    /\ bbox_coll = Box(0, 0 - 1, 1, 0)

\* both decoders have decoded a south-western token away from zero
C15_WitnessSouthWest ==
    /\ tileid = "S78W161"
    /\ bbox_single = Box(0 - 161, 0 - 79, 0 - 160, 0 - 78)
    /\ bbox_coll = bbox_single

=============================================================================
